---- MODULE Spec2Model ----
(***************************************************************************)
(* A model of image-processor: the session grouper (session.rs), the       *)
(* persisted transfer state (state.rs) and the transfer engine             *)
(* (transfer.rs) as driven by main (main.rs).                              *)
(*                                                                         *)
(* Six specifications share the variables:                                 *)
(*   Spec      - repeated invocations of main over one source and one      *)
(*               destination directory, with process kills and I/O         *)
(*               failures at every filesystem step;                        *)
(*   SpecLive  - the same without I/O failures, with weak fairness of the  *)
(*               program's own steps;                                      *)
(*   SpecResume - the same, started from what an earlier invocation over   *)
(*               fewer files left on disk;                                 *)
(*   SpecLoad  - load_state applied to arbitrary pairs of state files;     *)
(*   SpecGroup - group_into_sessions applied to arbitrary short inputs;    *)
(*   SpecNaming - group_into_sessions applied to long bursts of files.     *)
(***************************************************************************)
EXTENDS Integers, Sequences, FiniteSets, TLC

VARIABLES
    pc,          \* position of the running process, or idle/done/failed/dead
    dry_run,     \* args.dry_run of the current invocation
    state,       \* the in-memory TransferState (main.rs transfer_state)
    si,          \* index of the session being processed (transfer.rs:33)
    fi,          \* index of the file inside that session (transfer.rs:40)
    sdir,        \* directory save_state is writing to: "out" or "in"
    dest,        \* destination files: path -> content
    dirs,        \* directories that exist under (and including) output_dir
    stf,         \* the state file at its well-known name, per directory
    tmp,         \* save_state's temporary file, per directory
    runs,        \* number of invocations of main so far
    err,         \* the error the last invocation returned, or "none"
    collide,     \* whether source files 1 and 2 share a basename
    loaded,      \* history: keys completed in the state this run started with
    copiedRun,   \* history: files whose byte copy completed in this run
    copiedEver,  \* history: files whose byte copy completed in some run
    torn,        \* history: files whose copy a kill or an error cut short
    gfiles,      \* SpecGroup: the input of group_into_sessions
    gap_hours,   \* SpecGroup: the gap threshold
    gsessions,   \* SpecGroup: the result of group_into_sessions
    lresult      \* SpecLoad: the result of load_state

vars == <<pc, dry_run, state, si, fi, sdir, dest, dirs, stf, tmp, runs, err, collide,
          loaded, copiedRun, copiedEver, torn, gfiles, gap_hours, gsessions, lresult>>

-----------------------------------------------------------------------------
(* Bounds of the model *)

\* number of source files found by the scan
NumFiles == 3
\* file sizes, in buffers of BUFFER_SIZE bytes, range over 0..MaxSize-1
MaxSize == 2
\* number of invocations of main
MaxRuns == 3
\* longest input sequence given to group_into_sessions
MaxLen == 3
\* sub-second resolution of a timestamp: ticks per second
TicksPerSec == 2
\* files of one burst, each a session of its own (SpecNaming)
MaxSessions == 257

-----------------------------------------------------------------------------
(* Generic helpers *)

Abs(n) == IF n < 0 THEN -n ELSE n

\* integer division truncating toward zero, as Rust's `/` and `as i64`
TruncDiv(a, b) == IF a >= 0 THEN a \div b ELSE -((-a) \div b)

Range(s) == {s[i] : i \in DOMAIN s}

RECURSIVE SumSeq(_)
SumSeq(s) == IF s = <<>> THEN 0 ELSE Head(s) + SumSeq(Tail(s))

RECURSIVE Flatten(_)
Flatten(ss) == IF ss = <<>> THEN <<>> ELSE Head(ss) \o Flatten(Tail(ss))

\* all orderings of a finite set, as sequences without repetition
Perms(S) == {q \in [1..Cardinality(S) -> S] : \A i, j \in DOMAIN q : i # j => q[i] # q[j]}

Reverse(q) == [i \in DOMAIN q |-> q[Len(q) + 1 - i]]

-----------------------------------------------------------------------------
(* session.rs: timestamps, grouping, naming *)

SecondsPerHour == 3600
SecondsPerDay == 86400

\* A NaiveDateTime: whole seconds since 2024-01-15 00:00:00 plus a
\* sub-second part in ticks (chrono keeps nanoseconds; a file-system
\* modification time has a sub-second part, an EXIF or mvhd time has none).
DateTime(secs, frac) == [secs |-> secs, frac |-> frac]

\* file.datetime - prev.datetime, a signed Duration in ticks
DurationBetween(a, b) == (a.secs - b.secs) * TicksPerSec + (a.frac - b.frac)

\* Duration::num_seconds: whole seconds, truncated toward zero
num_seconds(d) == TruncDiv(d, TicksPerSec)

\* gap_hours is a rational number of hours num/den;
\* (gap_hours * 3600.0) as i64 truncates toward zero
GapSeconds(gap) == TruncDiv(gap.num * SecondsPerHour, gap.den)

\* the loop, were a closed session put in front of the earlier ones
RECURSIVE GroupLoopPrepend(_, _, _, _, _)
GroupLoopPrepend(files, i, sessions, current_session, gap_seconds) ==
    IF i > Len(files)
    THEN IF current_session # <<>> THEN <<current_session>> \o sessions ELSE sessions
    ELSE LET file == files[i]
             prev == current_session[Len(current_session)]
             diff == Abs(num_seconds(DurationBetween(file.datetime, prev.datetime)))
         IN  IF diff > gap_seconds
             THEN GroupLoopPrepend(files, i + 1, <<current_session>> \o sessions, <<file>>, gap_seconds)
             ELSE GroupLoopPrepend(files, i + 1, sessions, Append(current_session, file), gap_seconds)

\* the loop, were the session open at the end of the input not pushed
RECURSIVE GroupLoopNoFlush(_, _, _, _, _)
GroupLoopNoFlush(files, i, sessions, current_session, gap_seconds) ==
    IF i > Len(files)
    THEN sessions
    ELSE LET file == files[i]
             prev == current_session[Len(current_session)]
             diff == Abs(num_seconds(DurationBetween(file.datetime, prev.datetime)))
         IN  IF diff > gap_seconds
             THEN GroupLoopNoFlush(files, i + 1, Append(sessions, current_session), <<file>>, gap_seconds)
             ELSE GroupLoopNoFlush(files, i + 1, sessions, Append(current_session, file), gap_seconds)

\* the loop of group_into_sessions from file i on
RECURSIVE GroupLoop(_, _, _, _, _)
GroupLoop(files, i, sessions, current_session, gap_seconds) ==
    IF i > Len(files)
    THEN IF current_session # <<>> THEN Append(sessions, current_session) ELSE sessions
    ELSE LET file == files[i]
             prev == current_session[Len(current_session)]
             diff == Abs(num_seconds(DurationBetween(file.datetime, prev.datetime)))
         IN  IF diff > gap_seconds
             THEN GroupLoop(files, i + 1, Append(sessions, current_session), <<file>>, gap_seconds)
             ELSE GroupLoop(files, i + 1, sessions, Append(current_session, file), gap_seconds)

\* datetime.format("%Y-%m-%d"), for the days the model's timestamps fall on
DateText == <<"2024-01-15", "2024-01-16", "2024-01-17", "2024-01-18">>
FormatDate(dt) == DateText[(dt.secs \div SecondsPerDay) + 1]

\* a byte as a char, for the bytes from b'a' on
AsciiFromA == <<"a", "b", "c", "d", "e", "f", "g", "h", "i", "j", "k", "l", "m",
                "n", "o", "p", "q", "r", "s", "t", "u", "v", "w", "x", "y", "z",
                "{", "|", "}", "~">>
ByteA == 97
ByteModulus == 256
\* a u8 as a char; a byte outside the table is written by its code
ByteChar(b) ==
    IF b \in ByteA..(ByteA + Len(AsciiFromA) - 1)
    THEN AsciiFromA[b - ByteA + 1]
    ELSE "#" \o ToString(b)

\* session.rs:76: (b'a' + *idx as u8) as char. `as u8` keeps the low byte of
\* idx; the u8 addition wraps in a build without overflow checks
SuffixChar(idx) == ByteChar((ByteA + (idx % ByteModulus)) % ByteModulus)

\* the u8 addition of session.rs:76 overflows: a build with overflow checks
\* panics there
SuffixOverflows(idx) == ByteA + (idx % ByteModulus) >= ByteModulus

\* date_counts[date]: how many sessions start on that date
DateCount(session_dates, date) ==
    Cardinality({i \in DOMAIN session_dates : session_dates[i] = date})

\* date_seen[date] when session i is named: sessions of that date before i
DateSeen(session_dates, i) ==
    Cardinality({j \in 1..(i - 1) : session_dates[j] = session_dates[i]})

name_sessions(sessions) ==
    LET session_dates == [i \in DOMAIN sessions |-> FormatDate(sessions[i][1].datetime)]
    IN  [i \in DOMAIN sessions |->
            [folder_name |->
                IF DateCount(session_dates, session_dates[i]) = 1
                THEN session_dates[i]
                ELSE session_dates[i] \o "_" \o SuffixChar(DateSeen(session_dates, i)),
             files |-> sessions[i]]]

group_into_sessions(files, gap) ==
    IF files = <<>>
    THEN <<>>
    ELSE name_sessions(GroupLoop(files, 2, <<>>, <<files[1]>>, GapSeconds(gap)))

\* some session that gets a suffix makes the addition of session.rs:76
\* overflow
NamingOverflows(sessions) ==
    LET session_dates == [i \in DOMAIN sessions |-> FormatDate(sessions[i][1].datetime)]
    IN  \E i \in DOMAIN sessions :
            /\ DateCount(session_dates, session_dates[i]) # 1
            /\ SuffixOverflows(DateSeen(session_dates, i))

-----------------------------------------------------------------------------
(* The source volume and the command line: the fixture of Spec *)

Files == 1..NumFiles

input_dir == <<"sd">>
output_dir == <<"out">>

SubDirName == <<"100CANON", "101CANON", "102CANON", "103CANON", "104CANON">>
BaseName == <<"IMG_0001.CR2", "IMG_0002.CR2", "MVI_0003.MP4", "IMG_0004.CR2", "IMG_0005.CR2">>

\* every source file lies in a directory of its own, so that two of them
\* can share a basename
SourceNameIf(c, f) == IF c /\ f = 2 THEN BaseName[1] ELSE BaseName[f]
SourcePathIf(c, f) == input_dir \o <<SubDirName[f], SourceNameIf(c, f)>>
SourcePath(f) == SourcePathIf(collide, f)

\* the length of source file f, in buffers of BUFFER_SIZE bytes
Size(f) == f % MaxSize

\* files 1,2 are shot a second apart, files 3,4 eight hours later, ...
ShootGapHours == 8
FileTime(f) == DateTime(((f - 1) \div 2) * ShootGapHours * SecondsPerHour + ((f - 1) % 2), 0)

\* cli.rs: --gap-hours, default 6.0
DefaultGapHours == [num |-> 6, den |-> 1]

\* main.rs:25-76: scan (sorted by sequence number), read the dates, group;
\* the result is the same in every invocation, and is computed once for
\* each of the two source volumes
DatedFilesIf(c) ==
    [f \in Files |-> [path |-> SourcePathIf(c, f), datetime |-> FileTime(f), sequence_number |-> f]]
SessionsIf == [c \in BOOLEAN |-> group_into_sessions(DatedFilesIf(c), DefaultGapHours)]
Sessions == SessionsIf[collide]

\* the model's name of a source file, read back from a DatedFile
FileId(file) == file.sequence_number

-----------------------------------------------------------------------------
(* state.rs *)

\* Path::strip_prefix(input_dir).unwrap_or(file_path)
file_key(file_path, in_dir) ==
    IF Len(file_path) >= Len(in_dir) /\ SubSeq(file_path, 1, Len(in_dir)) = in_dir
    THEN SubSeq(file_path, Len(in_dir) + 1, Len(file_path))
    ELSE file_path

Key(f) == file_key(SourcePath(f), input_dir)
AllKeys == {Key(f) : f \in Files}

None == [some |-> FALSE]
Some(v) == [some |-> TRUE, val |-> v]

\* TransferState::new; uuid_v4 is derived from the clock, here the number
\* of the invocation
NewState(id, total_files, total_bytes) ==
    [transfer_id |-> id, completed_files |-> {}, total_files |-> total_files,
     total_bytes |-> total_bytes]

NoState == [transfer_id |-> 0, completed_files |-> {}, total_files |-> 0, total_bytes |-> 0]

\* a lookup that never finds the key
is_completedNever(st, key) == FALSE

is_completed(st, key) == key \in st.completed_files

\* an insert that forgets the keys inserted before
mark_completedOnly(st, key) == [st EXCEPT !.completed_files = {key}]

\* an insert that is lost
mark_completedLost(st, key) == st

mark_completed(st, key) ==
    [st EXCEPT !.completed_files = st.completed_files \cup {key}]

all_done(st) == Cardinality(st.completed_files) >= st.total_files

\* A file of a directory: absent, unreadable (read_to_string fails), or
\* holding a text of which the whole or only a strict prefix is written.
Absent == [kind |-> "absent"]
Unreadable == [kind |-> "unreadable"]
FileOf(text, part) == [kind |-> "file", text |-> text, part |-> part]

\* The order in which a HashSet is iterated is unspecified. Deserialize
\* reads the array through its set of elements only, so no behaviour of
\* Spec depends on the order written: Spec follows two orders, an order and
\* its reverse, and SpecLoad reads arrays in every order.
IterationOrders(S) ==
    LET q == CHOOSE q \in Perms(S) : TRUE IN {q, Reverse(q)}

\* serde_json::to_string_pretty: the set is written as an array, in the
\* iteration order of the HashSet
Serialize(st, order) ==
    [transfer_id |-> st.transfer_id, completed_files |-> order,
     total_files |-> st.total_files, total_bytes |-> st.total_bytes]

\* a parse that drops the array
DeserializeNoKeys(text) ==
    [transfer_id |-> text.transfer_id, completed_files |-> {},
     total_files |-> text.total_files, total_bytes |-> text.total_bytes]

\* serde_json::from_str: a strict prefix of the text is not a JSON value;
\* the array is collected into a HashSet
Deserialize(text) ==
    [transfer_id |-> text.transfer_id, completed_files |-> Range(text.completed_files),
     total_files |-> text.total_files, total_bytes |-> text.total_bytes]

load_from(file) ==
    IF file.kind = "file" /\ file.part = "full" THEN Some(Deserialize(file.text)) ELSE None

\* a load that finds no state file
load_stateNone(in_file, out_file) == None

\* a load that prefers the input directory
load_statePreferIn(in_file, out_file) ==
    IF load_from(in_file).some THEN load_from(in_file) ELSE load_from(out_file)

\* load_from(output_dir).or_else(|| load_from(input_dir))
load_state(in_file, out_file) ==
    IF load_from(out_file).some THEN load_from(out_file) ELSE load_from(in_file)

\* save_state_both: output_dir with best_effort = false, input_dir with true
FirstSaveDir == "out"

\* both directories written best-effort
BestEffortAlways(d) == TRUE

BestEffort(d) == d = "in"

-----------------------------------------------------------------------------
(* transfer.rs and main.rs: positions and helpers *)

Running == {"session", "file", "copy", "save_begin", "save_write", "save_rename",
            "returned", "clean_in"}
Stopped == {"idle", "done", "failed", "dead"}

NumSessions == Len(Sessions)
SessionFiles(s) == Sessions[s].files

\* the file the loops are at
CurFile == FileId(SessionFiles(si)[fi])

\* output_dir.join(&session.folder_name)
SessionDir(s) == output_dir \o <<Sessions[s].folder_name>>

\* file.path.file_name()
file_name(path) == path[Len(path)]

\* a destination that keeps the source's directories
DestPathByKey(s, f) == SessionDir(s) \o Key(f)

\* session_dir.join(&*file_name)
DestPath(s, f) == SessionDir(s) \o <<file_name(SourcePath(f))>>

SessionOf(f) == CHOOSE s \in 1..NumSessions : \E i \in DOMAIN SessionFiles(s) : FileId(SessionFiles(s)[i]) = f
DestOf(f) == DestPath(SessionOf(f), f)
DestPaths == {DestOf(f) : f \in Files}

\* a destination file holding the first len buffers of source file src
Content(src, len) == [kind |-> "file", src |-> src, len |-> len]
NoFile == [kind |-> "absent", src |-> 0, len |-> 0]

\* main.rs:96-102
total_files == SumSeq([s \in 1..NumSessions |-> Len(SessionFiles(s))])
total_bytes == SumSeq([f \in Files |-> Size(f)])

\* a loop that is left as soon as all_done holds
AdvanceUntilDone ==
    IF all_done(state) \/ (fi >= Len(SessionFiles(si)) /\ si >= NumSessions)
    THEN /\ fi' = 0
         /\ si' = si + 1
         /\ pc' = "returned"
    ELSE IF fi < Len(SessionFiles(si))
    THEN /\ pc' = "file"
         /\ fi' = fi + 1
         /\ si' = si
    ELSE /\ fi' = 0
         /\ si' = si + 1
         /\ pc' = "session"

\* the position after the file at (si, fi): the next file of the session,
\* the next session, or the end of transfer_sessions
Advance ==
    IF fi < Len(SessionFiles(si))
    THEN /\ pc' = "file"
         /\ fi' = fi + 1
         /\ si' = si
    ELSE /\ fi' = 0
         /\ si' = si + 1
         /\ pc' = IF si < NumSessions THEN "session" ELSE "returned"

disk == <<dest, dirs, stf>>
gvars == <<gfiles, gap_hours, gsessions, lresult>>

-----------------------------------------------------------------------------
(* main.rs: one invocation up to the call of transfer_sessions *)

\* main.rs:91-117: create the output directory, load or create the state
Start(dry) ==
    /\ pc \in Stopped
    /\ runs < MaxRuns
    /\ runs' = runs + 1
    /\ dry_run' = dry
    /\ dirs' = IF dry THEN dirs ELSE dirs \cup {output_dir}
    /\ LET existing == load_state(stf["in"], stf["out"])
       IN  state' = IF ~dry /\ existing.some
                    THEN existing.val
                    ELSE NewState(runs + 1, total_files, total_bytes)
    /\ loaded' = state'.completed_files
    /\ copiedRun' = {}
    /\ si' = 1
    /\ fi' = 0
    /\ pc' = "session"
    /\ err' = "none"
    /\ UNCHANGED <<sdir, dest, stf, tmp, collide, copiedEver, torn, gvars>>

StartReal == Start(FALSE)
StartDry == Start(TRUE)

\* The process has ended, by its return, an error or a kill: its memory is
\* gone. Its temporary files carry its process id in their names, so no
\* later process reads them: tmp is the current process's pair of them.
Halt(how, why) ==
    /\ pc' = how
    /\ err' = why
    /\ torn' = IF pc = "copy" /\ dest[DestPath(si, CurFile)].len < Size(CurFile)
               THEN torn \cup {CurFile}
               ELSE torn
    /\ dry_run' = FALSE
    /\ state' = NoState
    /\ si' = 0
    /\ fi' = 0
    /\ sdir' = FirstSaveDir
    /\ tmp' = [d \in {"out", "in"} |-> Absent]
    /\ loaded' = {}
    /\ copiedRun' = {}

\* main.rs:92: create_dir_all(&args.output)? fails
StartFail ==
    /\ pc \in Stopped
    /\ runs < MaxRuns
    /\ runs' = runs + 1
    /\ Halt("failed", "mkdir")
    /\ UNCHANGED <<disk, collide, copiedEver, gvars>>

-----------------------------------------------------------------------------
(* transfer.rs: transfer_sessions *)

\* a session directory created in a dry run too
EnterSessionAlwaysCreates ==
    /\ pc = "session"
    /\ dirs' = dirs \cup {SessionDir(si)}
    /\ pc' = "file"
    /\ fi' = 1
    /\ UNCHANGED <<dry_run, state, si, sdir, dest, stf, tmp, runs, collide, loaded, copiedRun, copiedEver, err, torn, gvars>>

\* transfer.rs:34-38
EnterSession ==
    /\ pc = "session"
    /\ dirs' = IF dry_run THEN dirs ELSE dirs \cup {SessionDir(si)}
    /\ pc' = "file"
    /\ fi' = 1
    /\ UNCHANGED <<dry_run, state, si, sdir, dest, stf, tmp, runs, collide, loaded, copiedRun, copiedEver, err, torn, gvars>>

\* transfer.rs:37: create_dir_all(&session_dir)? fails
EnterSessionFail ==
    /\ pc = "session"
    /\ ~dry_run
    /\ Halt("failed", "mkdir")
    /\ UNCHANGED <<disk, runs, collide, copiedEver, gvars>>

\* transfer.rs:43-49: already copied in a previous run
SkipFile ==
    /\ pc = "file"
    /\ is_completed(state, Key(CurFile))
    /\ Advance
    /\ UNCHANGED <<dry_run, state, sdir, disk, tmp, runs, collide, loaded, copiedRun, copiedEver, err, torn, gvars>>

\* transfer.rs:64-72
DryFile ==
    /\ pc = "file"
    /\ ~is_completed(state, Key(CurFile))
    /\ dry_run
    /\ Advance
    /\ UNCHANGED <<dry_run, state, sdir, disk, tmp, runs, collide, loaded, copiedRun, copiedEver, err, torn, gvars>>

\* transfer.rs:86-88: open the source, create (truncate) the destination
CopyOpen ==
    /\ pc = "file"
    /\ ~is_completed(state, Key(CurFile))
    /\ ~dry_run
    /\ dest' = [dest EXCEPT ![DestPath(si, CurFile)] = Content(CurFile, 0)]
    /\ pc' = "copy"
    /\ UNCHANGED <<dry_run, state, si, fi, sdir, dirs, stf, tmp, runs, collide, loaded, copiedRun, copiedEver, err, torn, gvars>>

\* transfer.rs:86-87: File::open or File::create fails
CopyOpenFail ==
    /\ pc = "file"
    /\ ~is_completed(state, Key(CurFile))
    /\ ~dry_run
    /\ Halt("failed", "copy")
    /\ UNCHANGED <<disk, runs, collide, copiedEver, gvars>>

\* the copy loop left at its first read
EndOfFileEarly == TRUE

\* transfer.rs:91-94: read returns 0 once every buffer of the source is read
EndOfFile == dest[DestPath(si, CurFile)].len = Size(CurFile)

\* transfer.rs:90-97: one buffer read and written
CopyChunk ==
    /\ pc = "copy"
    /\ ~EndOfFile
    /\ dest' = [dest EXCEPT ![DestPath(si, CurFile)].len = @ + 1]
    /\ UNCHANGED <<pc, dry_run, state, si, fi, sdir, dirs, stf, tmp, runs, collide, loaded, copiedRun, copiedEver, err, torn, gvars>>

\* a failing copy, were the key persisted before the copy is complete
CopyChunkFailMarked ==
    /\ pc = "copy"
    /\ Halt("failed", "copy")
    /\ \E order \in IterationOrders(state.completed_files \cup {Key(CurFile)}) :
           stf' = [stf EXCEPT ![FirstSaveDir] =
                      FileOf(Serialize(mark_completed(state, Key(CurFile)), order), "full")]
    /\ UNCHANGED <<dest, dirs, runs, collide, copiedEver, gvars>>

\* transfer.rs:91,95: read or write_all fails
CopyChunkFail ==
    /\ pc = "copy"
    /\ Halt("failed", "copy")
    /\ UNCHANGED <<disk, runs, collide, copiedEver, gvars>>

\* transfer.rs:92-106 and 75: end of file, and the key is marked completed.
\* Setting the modification time changes no byte of the destination and its
\* failure is dropped (`let _ =`), so it leaves no trace in the model.
CopyFinish ==
    /\ pc = "copy"
    /\ EndOfFile
    /\ state' = mark_completed(state, Key(CurFile))
    /\ copiedRun' = copiedRun \cup {CurFile}
    /\ copiedEver' = copiedEver \cup {CurFile}
    /\ sdir' = FirstSaveDir
    /\ pc' = "save_begin"
    /\ UNCHANGED <<dry_run, si, fi, dest, dirs, stf, tmp, runs, collide, loaded, err, torn, gvars>>

-----------------------------------------------------------------------------
(* state.rs: save_state, as called twice by save_state_both *)

\* save_state returned Ok(()) for directory d: save_state_both goes on to
\* the input directory, or returns to the loop of transfer_sessions
AfterSave(d) ==
    IF d = FirstSaveDir
    THEN /\ sdir' = "in"
         /\ pc' = "save_begin"
         /\ UNCHANGED <<si, fi>>
    ELSE /\ sdir' = FirstSaveDir
         /\ Advance

\* a rename not waiting for the end of the write
RenameReadyEarly == pc \in {"save_write", "save_rename"}

\* state.rs:82-84: the rename is reached through the Ok(()) of fs::write,
\* that is, once the whole text is written
RenameReady == pc = "save_rename"

\* the error save_state returns for directory d
SaveError(d) == IF d = FirstSaveDir THEN "state_out" ELSE "state_in"

\* state.rs:79-82: fs::write creates (truncates) the temporary file and
\* starts writing the text
SaveWriteBegin ==
    /\ pc = "save_begin"
    /\ \E order \in IterationOrders(state.completed_files) :
           tmp' = [tmp EXCEPT ![sdir] = FileOf(Serialize(state, order), "partial")]
    /\ pc' = "save_write"
    /\ UNCHANGED <<dry_run, state, si, fi, sdir, dest, dirs, stf, runs, collide, loaded, copiedRun, copiedEver, err, torn, gvars>>

\* state.rs:82: fs::write completes
SaveWriteEnd ==
    /\ pc = "save_write"
    /\ tmp' = [tmp EXCEPT ![sdir].part = "full"]
    /\ pc' = "save_rename"
    /\ UNCHANGED <<dry_run, state, si, fi, sdir, dest, dirs, stf, runs, collide, loaded, copiedRun, copiedEver, err, torn, gvars>>

\* state.rs:84: fs::rename(&tmp, &target)
SaveRename ==
    /\ RenameReady
    /\ tmp[sdir].kind = "file"
    /\ stf' = [stf EXCEPT ![sdir] = tmp[sdir]]
    /\ tmp' = [tmp EXCEPT ![sdir] = Absent]
    /\ AfterSave(sdir)
    /\ UNCHANGED <<dry_run, state, dest, dirs, runs, collide, loaded, copiedRun, copiedEver, err, torn, gvars>>

\* state.rs:84: fs::rename fails; the `?` returns the error whatever
\* best_effort is
SaveRenameFail ==
    /\ pc = "save_rename"
    /\ Halt("failed", SaveError(sdir))
    /\ UNCHANGED <<disk, runs, collide, copiedEver, gvars>>

\* state.rs:97: fs::write fails and best_effort is false
SaveWriteFailRequired ==
    /\ pc \in {"save_begin", "save_write"}
    /\ ~BestEffort(sdir)
    /\ Halt("failed", SaveError(sdir))
    /\ UNCHANGED <<disk, runs, collide, copiedEver, gvars>>

\* state.rs:87-96: fs::write fails and best_effort is true: the temporary
\* file is removed if that succeeds, and save_state returns Ok(())
SaveWriteFailBestEffort ==
    /\ pc \in {"save_begin", "save_write"}
    /\ BestEffort(sdir)
    /\ \E removed \in BOOLEAN :
           tmp' = IF removed THEN [tmp EXCEPT ![sdir] = Absent] ELSE tmp
    /\ AfterSave(sdir)
    /\ UNCHANGED <<dry_run, state, dest, dirs, stf, runs, collide, loaded, copiedRun, copiedEver, err, torn, gvars>>

-----------------------------------------------------------------------------
(* main.rs:119-130 and state.rs: cleanup_state *)

\* a cleanup whatever the run was
CleanupAlways == TRUE

\* main.rs:123: the condition of the cleanup
CleanupDue == ~dry_run /\ all_done(state)

\* main.rs:123-130: no cleanup
FinishNoCleanup ==
    /\ pc = "returned"
    /\ ~CleanupDue
    /\ Halt("done", "none")
    /\ UNCHANGED <<disk, runs, collide, copiedEver, gvars>>

\* state.rs:110: remove the output directory's state file, errors ignored
CleanupOut ==
    /\ pc = "returned"
    /\ CleanupDue
    /\ \E removed \in BOOLEAN :
           stf' = IF removed THEN [stf EXCEPT !["out"] = Absent] ELSE stf
    /\ pc' = "clean_in"
    /\ UNCHANGED <<dry_run, state, si, fi, sdir, dest, dirs, tmp, runs, collide, loaded, copiedRun, copiedEver, err, torn, gvars>>

\* state.rs:111: remove the input directory's state file, errors ignored
CleanupIn ==
    /\ pc = "clean_in"
    /\ \E removed \in BOOLEAN :
           stf' = IF removed THEN [stf EXCEPT !["in"] = Absent] ELSE stf
    /\ Halt("done", "none")
    /\ UNCHANGED <<dest, dirs, runs, collide, copiedEver, gvars>>

\* the process is killed (or the machine loses power) at any step
Crash ==
    /\ pc \in Running
    /\ Halt("dead", "none")
    /\ UNCHANGED <<disk, runs, collide, copiedEver, gvars>>

\* a kill that is followed by a re-invocation
CrashThenRerun ==
    /\ runs < MaxRuns
    /\ Crash

-----------------------------------------------------------------------------
(* Spec: invocations of main with kills and I/O failures *)

GroupIdle ==
    /\ gfiles = <<>>
    /\ gap_hours = DefaultGapHours
    /\ gsessions = <<>>
    /\ lresult = None

Init ==
    /\ pc = "idle"
    /\ dry_run = FALSE
    /\ state = NoState
    /\ si = 0
    /\ fi = 0
    /\ sdir = FirstSaveDir
    /\ collide \in BOOLEAN
    /\ dest = [p \in DestPaths |-> NoFile]
    /\ dirs = {}
    /\ stf = [d \in {"out", "in"} |-> Absent]
    /\ tmp = [d \in {"out", "in"} |-> Absent]
    /\ runs = 0
    /\ err = "none"
    /\ loaded = {}
    /\ copiedRun = {}
    /\ copiedEver = {}
    /\ torn = {}
    /\ GroupIdle

Step ==
    \/ StartReal
    \/ EnterSession
    \/ SkipFile
    \/ CopyOpen
    \/ CopyChunk
    \/ CopyFinish
    \/ SaveWriteBegin
    \/ SaveWriteEnd
    \/ SaveRename
    \/ CleanupOut
    \/ CleanupIn

DryStep ==
    \/ StartDry
    \/ DryFile
    \/ FinishNoCleanup

Failure ==
    \/ StartFail
    \/ EnterSessionFail
    \/ CopyOpenFail
    \/ CopyChunkFail
    \/ SaveWriteFailRequired
    \/ SaveWriteFailBestEffort
    \/ SaveRenameFail

Next == Step \/ DryStep \/ Crash \/ Failure

Spec == Init /\ [][Next]_vars

(* SpecLive: no I/O failure, every kill followed by a re-invocation, and the
   program's own steps weakly fair *)
NextLive == Step \/ CrashThenRerun

SpecLive == Init /\ [][NextLive]_vars /\ WF_vars(Step)

-----------------------------------------------------------------------------
(* SpecResume: invocations of main after an earlier invocation that ran
   when the volume held only the first files, copied some of them and was
   killed; the state files it left have a total_files smaller than the
   number of files now *)

\* the sessions of the earlier invocation, over the first m files
EarlierSessionsIf ==
    [c \in BOOLEAN |->
        [m \in 1..NumFiles |->
            group_into_sessions(SubSeq(DatedFilesIf(c), 1, m), DefaultGapHours)]]

\* the session of file f in the earlier invocation
EarlierSession(m, f) ==
    LET ss == EarlierSessionsIf[collide][m]
    IN  ss[CHOOSE s \in DOMAIN ss : \E i \in DOMAIN ss[s].files : FileId(ss[s].files[i]) = f]

\* transfer.rs:34 and 51-56, in the earlier invocation
EarlierDir(m, f) == output_dir \o <<EarlierSession(m, f).folder_name>>
EarlierDestOf(m, f) == EarlierDir(m, f) \o <<file_name(SourcePath(f))>>

\* main.rs:96-113 and transfer.rs:75 in the earlier invocation: the state
\* created for m files, with the first j of them marked
EarlierState(m, j) ==
    [NewState(1, m, SumSeq([f \in 1..m |-> Size(f)]))
        EXCEPT !.completed_files = {Key(f) : f \in 1..j}]

\* the state files the earlier invocation left: the output directory's
\* holds the j keys; the input directory's holds them too, or was not
\* written, or is one save behind
EarlierStateFiles(m, j) ==
    {[d \in {"out", "in"} |->
        IF d = "out"
        THEN FileOf(Serialize(EarlierState(m, j), order), "full")
        ELSE IF lag = 0 THEN FileOf(Serialize(EarlierState(m, j), order), "full")
        ELSE IF lag = 1 /\ j > 1
             THEN FileOf(Serialize(EarlierState(m, j - 1),
                                   CHOOSE q \in IterationOrders({Key(f) : f \in 1..(j - 1)}) : TRUE),
                         "full")
        ELSE Absent] :
        order \in IterationOrders({Key(f) : f \in 1..j}), lag \in 0..2}

\* the destination it left: the first j files at the paths of its sessions,
\* a later file over an earlier one of the same path
EarlierDest(m, j) ==
    [p \in DestPaths \cup {EarlierDestOf(m, f) : f \in 1..m} |->
        IF \E f \in 1..j : EarlierDestOf(m, f) = p
        THEN LET last == CHOOSE f \in 1..j :
                             /\ EarlierDestOf(m, f) = p
                             /\ \A g \in 1..j : EarlierDestOf(m, g) = p => g <= f
             IN  Content(last, Size(last))
        ELSE NoFile]

InitResume ==
    /\ pc = "dead"
    /\ dry_run = FALSE
    /\ state = NoState
    /\ si = 0
    /\ fi = 0
    /\ sdir = FirstSaveDir
    /\ collide \in BOOLEAN
    /\ tmp = [d \in {"out", "in"} |-> Absent]
    /\ runs = 1
    /\ err = "none"
    /\ loaded = {}
    /\ copiedRun = {}
    /\ torn = {}
    /\ GroupIdle
    /\ \E m \in 1..(NumFiles - 1) : \E j \in 1..m :
           /\ stf \in EarlierStateFiles(m, j)
           /\ dest = EarlierDest(m, j)
           /\ dirs = {output_dir} \cup {EarlierDir(m, f) : f \in 1..j}
           /\ copiedEver = 1..j

SpecResume == InitResume /\ [][Next]_vars

-----------------------------------------------------------------------------
(* SpecLoad: load_state on every pair of state files *)

TransferIdle ==
    /\ dry_run = FALSE
    /\ state = NoState
    /\ si = 0
    /\ fi = 0
    /\ sdir = FirstSaveDir
    /\ collide = FALSE
    /\ dest = [p \in DestPaths |-> NoFile]
    /\ dirs = {}
    /\ tmp = [d \in {"out", "in"} |-> Absent]
    /\ runs = 0
    /\ err = "none"
    /\ loaded = {}
    /\ copiedRun = {}
    /\ copiedEver = {}
    /\ torn = {}

\* the arrays a state file is given: keys in any order, repeated or not
KeyArrays == UNION {[1..n -> AllKeys] : n \in 0..2} \cup Perms(AllKeys)

\* texts of state files, of this run's file count or of an earlier scan's
StateTexts ==
    {[transfer_id |-> 1, completed_files |-> a, total_files |-> n, total_bytes |-> total_bytes] :
        a \in KeyArrays, n \in {NumFiles - 1, NumFiles}}

\* what a directory can hold at the state file's name
StateFiles ==
    {Absent, Unreadable} \cup {FileOf(t, part) : t \in StateTexts, part \in {"partial", "full"}}

InitLoad ==
    /\ pc = "load_call"
    /\ TransferIdle
    /\ stf \in [{"out", "in"} -> StateFiles]
    /\ lresult = None
    /\ gfiles = <<>>
    /\ gap_hours = DefaultGapHours
    /\ gsessions = <<>>

\* state.rs:64-67
LoadState ==
    /\ pc = "load_call"
    /\ lresult' = load_state(stf["in"], stf["out"])
    /\ pc' = "load_return"
    /\ UNCHANGED <<dry_run, state, si, fi, sdir, dest, dirs, stf, tmp, runs, err, collide,
                   loaded, copiedRun, copiedEver, torn, gfiles, gap_hours, gsessions>>

NextLoad == LoadState

SpecLoad == InitLoad /\ [][NextLoad]_vars

-----------------------------------------------------------------------------
(* SpecGroup: group_into_sessions on every short input *)

\* seconds of the timestamps given: a second apart, six hours apart and on
\* the next day
SecSet == {0, 1, 2, DefaultGapHours.num * SecondsPerHour, SecondsPerDay}
TimeSet == {DateTime(secs, frac) : secs \in SecSet, frac \in 0..(TicksPerSec - 1)}

\* thresholds given: one second, a second and a half, six hours
GapSet == {[num |-> 1, den |-> 3600], [num |-> 1, den |-> 2400], DefaultGapHours}

GroupInput(times) ==
    [i \in DOMAIN times |->
        [path |-> input_dir \o <<SubDirName[i], BaseName[i]>>, datetime |-> times[i],
         sequence_number |-> i]]

InitGroup ==
    /\ pc = "group_call"
    /\ TransferIdle
    /\ \E n \in 0..MaxLen : \E times \in [1..n -> TimeSet] : gfiles = GroupInput(times)
    /\ gap_hours \in GapSet
    /\ gsessions = <<>>
    /\ lresult = None
    /\ stf = [d \in {"out", "in"} |-> Absent]

\* the call, were the session open at the end of the input not pushed
GroupIntoSessionsNoFlush ==
    /\ pc = "group_call"
    /\ gsessions' = IF gfiles = <<>> THEN <<>>
                     ELSE name_sessions(GroupLoopNoFlush(gfiles, 2, <<>>, <<gfiles[1]>>,
                                                         GapSeconds(gap_hours)))
    /\ pc' = "group_return"
    /\ UNCHANGED <<dry_run, state, si, fi, sdir, dest, dirs, stf, tmp, runs, err, collide,
                   loaded, copiedRun, copiedEver, torn, gfiles, gap_hours, lresult>>

\* session.rs:21-44
GroupIntoSessions ==
    /\ pc = "group_call"
    /\ gsessions' = group_into_sessions(gfiles, gap_hours)
    /\ pc' = "group_return"
    /\ UNCHANGED <<dry_run, state, si, fi, sdir, dest, dirs, stf, tmp, runs, err, collide,
                   loaded, copiedRun, copiedEver, torn, gfiles, gap_hours, lresult>>

NextGroup == GroupIntoSessions

SpecGroup == InitGroup /\ [][NextGroup]_vars

-----------------------------------------------------------------------------
(* SpecNaming: group_into_sessions on long inputs, every file a session of
   its own, so that one date has more sessions than a u8 counts *)

\* files shot StepSet seconds apart: all on one day, or spread over days
StepSet == {1, 300, 1200}

\* --gap-hours 0.0001, a third of a second: every later file starts a session
TinyGapHours == [num |-> 1, den |-> 10000]

BurstInput(n, step) ==
    [i \in 1..n |->
        [path |-> input_dir \o <<"DCIM", "IMG_" \o ToString(i) \o ".CR2">>,
         datetime |-> DateTime(i * step, 0), sequence_number |-> i]]

InitNaming ==
    /\ pc = "name_call"
    /\ TransferIdle
    /\ \E n \in 0..MaxSessions : \E step \in StepSet : gfiles = BurstInput(n, step)
    /\ gap_hours = TinyGapHours
    /\ gsessions = <<>>
    /\ lresult = None
    /\ stf = [d \in {"out", "in"} |-> Absent]

\* In the loop of session.rs:30-38 `prev`, the last file of the current
\* session, is always the file before `file` in the input, so the sessions
\* of files[lo..hi] are those of the first half followed by those of the
\* second half, the two sessions at the middle joined when the files at the
\* middle are within gap_seconds. GroupLoop recurses once per file, deeper
\* than can be evaluated for the bursts of this specification; LoopIsRuns
\* below states that the two agree.
RECURSIVE RunsBetween(_, _, _, _)
RunsBetween(files, lo, hi, gap_seconds) ==
    IF lo = hi
    THEN << <<files[lo]>> >>
    ELSE LET mid == (lo + hi) \div 2
             left == RunsBetween(files, lo, mid, gap_seconds)
             right == RunsBetween(files, mid + 1, hi, gap_seconds)
             diff == Abs(num_seconds(DurationBetween(files[mid + 1].datetime,
                                                     files[mid].datetime)))
         IN  IF diff > gap_seconds
             THEN left \o right
             ELSE SubSeq(left, 1, Len(left) - 1)
                      \o << left[Len(left)] \o right[1] >> \o Tail(right)

SessionRuns(files, gap_seconds) == RunsBetween(files, 1, Len(files), gap_seconds)

\* the sessions of gfiles before they are named
Grouped == IF gfiles = <<>> THEN <<>> ELSE SessionRuns(gfiles, GapSeconds(gap_hours))

\* session.rs:21-44, in a build where the u8 addition wraps, or on an input
\* that does not make it overflow
GroupReturns ==
    /\ pc = "name_call"
    /\ gsessions' = name_sessions(Grouped)
    /\ pc' = "name_return"
    /\ UNCHANGED <<dry_run, state, si, fi, sdir, dest, dirs, stf, tmp, runs, err, collide,
                   loaded, copiedRun, copiedEver, torn, gfiles, gap_hours, lresult>>

\* session.rs:76 in a build with overflow checks: the addition panics
GroupPanics ==
    /\ pc = "name_call"
    /\ NamingOverflows(Grouped)
    /\ pc' = "name_panic"
    /\ UNCHANGED <<dry_run, state, si, fi, sdir, dest, dirs, stf, tmp, runs, err, collide,
                   loaded, copiedRun, copiedEver, torn, gfiles, gap_hours, gsessions, lresult>>

NextNaming == GroupReturns \/ GroupPanics

SpecNaming == InitNaming /\ [][NextNaming]_vars

-----------------------------------------------------------------------------
(* Properties of the transfer engine *)

\* the keys a directory's state file records
KeysIn(d) == IF load_from(stf[d]).some THEN load_from(stf[d]).val.completed_files ELSE {}
PersistedKeys == KeysIn("out") \cup KeysIn("in")

\* the destination of f holds the whole of source file f
FullyCopied(f) == dest[DestOf(f)] = Content(f, Size(f))

\* the destination of f holds a strict prefix of a source file
PartlyCopied(f) == dest[DestOf(f)].kind = "file" /\ dest[DestOf(f)].len < Size(dest[DestOf(f)].src)

\* the files of the run have pairwise distinct destination paths
DistinctDest == \A f, g \in Files : f # g => DestOf(f) # DestOf(g)

\* transfer_sessions has returned Ok(()) in a run that is no dry run
RunSucceeded == pc \in {"returned", "clean_in"} /\ ~dry_run

\* C1: crash safety. In every reachable state, a state left by a kill
\* included, every key a persisted state file (destination or source
\* directory) records is the key of a source file whose whole content is at
\* its destination path, provided the destination paths are pairwise distinct.
C1_CrashSafety ==
    DistinctDest =>
        \A k \in PersistedKeys : \E f \in Files : Key(f) = k /\ FullyCopied(f)

\* C1 witness: the process was killed in the middle of a copy, after keys
\* were persisted
C1_Witness ==
    /\ pc = "dead"
    /\ DistinctDest
    /\ KeysIn("out") # {}
    /\ KeysIn("in") # {}
    /\ \E f \in Files : PartlyCopied(f)

\* the run has copied, and is copying, only files whose key was not
\* completed when it started, and has copied them all once it has returned
CopiesUncompletedOnly ==
    /\ \A f \in copiedRun : Key(f) \notin loaded
    /\ (pc = "copy" => Key(CurFile) \notin loaded)
    /\ (RunSucceeded =>
            /\ copiedRun = {f \in Files : Key(f) \notin loaded}
            /\ AllKeys \subseteq state.completed_files)

\* the step writes the destination of the file being copied, and no other,
\* and that file's key was not completed when the run started
WritesUncompletedOnly ==
    /\ pc \in {"file", "copy"}
    /\ Key(CurFile) \notin loaded
    /\ \A p \in DOMAIN dest : dest'[p] # dest[p] => p = DestPath(si, CurFile)

\* C2: resumability. A run that is no dry run and starts with keys already
\* completed copies no file whose key was completed (no copy of it is in
\* progress, none completes, and the only destination written is that of
\* the file being copied), and once transfer_sessions has returned Ok it has
\* copied every other file and every key is completed.
C2_Resumability ==
    /\ []((pc \in Running /\ ~dry_run) => CopiesUncompletedOnly)
    /\ [][dest' # dest => WritesUncompletedOnly]_vars

\* C2 witness: a resumed run has returned Ok, having skipped some files and
\* copied the others
C2_Witness ==
    /\ RunSucceeded
    /\ pc = "returned"
    /\ loaded # {}
    /\ copiedRun # {}

\* the step in which the byte copy of the current file completes
CopyCompletes == pc = "copy" /\ pc' = "save_begin"

\* C3 as stated: no source file has its byte copy carried out to completion
\* more than once, over all runs
C3_ExactlyOnce == [][CopyCompletes => CurFile \notin copiedEver]_vars

\* C3 amended: no byte copy of a source file is carried out to completion
\* while a state file on disk records the file's key, and none twice within
\* one run
C3_NoCopyOfPersisted ==
    [][CopyCompletes => (Key(CurFile) \notin PersistedKeys /\ CurFile \notin copiedRun)]_vars

\* C3 witness: after a kill, a run resumed from a state file has copied a
\* file while leaving alone a file copied by an earlier run
C3_Witness ==
    /\ runs >= 2
    /\ pc = "save_begin"
    /\ \E f \in copiedEver \ copiedRun : Key(f) \in loaded /\ Key(f) \in PersistedKeys

\* C4 as stated: eventually a run returns success, and then every source
\* file's destination holds the whole source content and the completed set
\* is the set of all keys
C4_RecoveryAnyPaths ==
    /\ <>RunSucceeded
    /\ [](RunSucceeded =>
            /\ \A f \in Files : FullyCopied(f)
            /\ state.completed_files = AllKeys)

\* C4 amended: the same, for files with pairwise distinct destination paths
C4_Recovery ==
    /\ <>RunSucceeded
    /\ [](RunSucceeded /\ DistinctDest =>
            /\ \A f \in Files : FullyCopied(f)
            /\ state.completed_files = AllKeys)

\* C4 witness: a run has returned Ok after a kill had cut a copy short; the
\* partial destination file now holds the whole content
C4_Witness ==
    /\ RunSucceeded
    /\ DistinctDest
    /\ torn # {}
    /\ \A f \in torn : FullyCopied(f)

\* the steps of a dry run: its start and every step until it ends
DryRunStep == (dry_run /\ pc \in Running) \/ (dry_run' /\ pc' \in Running)

NoEffect ==
    /\ dirs' = dirs
    /\ dest' = dest
    /\ stf' = stf
    /\ tmp' = tmp
    /\ state'.completed_files = {}
    /\ pc' # "failed"

\* C5: a dry run is free of side effects. No step of a run with dry_run =
\* true creates a directory, writes a destination file, writes or deletes
\* a state file or a temporary file, or marks a key completed, and the run
\* never ends in an error.
C5_DryRunNoEffect == [][DryRunStep => NoEffect]_vars

\* C5 witness: a dry run has gone through every session while an earlier,
\* killed run's state file and unfinished destination are on disk
C5_Witness ==
    /\ dry_run
    /\ pc = "returned"
    /\ KeysIn("out") # {}
    /\ \E f \in Files : ~FullyCopied(f)

SavePcs == {"save_begin", "save_write", "save_rename"}

\* the destination directory's state file holds the in-memory state
OutPersisted == load_from(stf["out"]) = Some(state)

\* what a step taken during the write of the destination directory does
DestinationWriteStep ==
    /\ stf'["in"] = stf["in"]
    /\ (pc' \in SavePcs => tmp'["in"] = tmp["in"])
    /\ (pc' \notin SavePcs =>
            /\ pc' \in {"failed", "dead"}
            /\ (pc' = "failed" => err' = "state_out")
            /\ dest' = dest
            /\ stf' = stf)

\* C6: save_state_both writes the destination directory first and the source
\* directory second. While the destination is being written nothing of the
\* source directory changes; the source directory is reached only with the
\* state persisted in the destination; a step that leaves the destination
\* write otherwise is a kill or the error return of the run, which changes
\* no destination file and no state file; and after the error nothing more
\* is copied.
C6_SaveBothOrder ==
    /\ []((pc \in SavePcs /\ sdir = "in") => OutPersisted)
    /\ [][(pc \in SavePcs /\ sdir = "out") => DestinationWriteStep]_vars
    /\ [][pc = "failed" => (dest' = dest /\ stf' = stf)]_vars

\* C6 witness: the run has ended with the destination state write's error,
\* a file copied but recorded nowhere and another file not copied at all
C6_Witness ==
    /\ pc = "failed"
    /\ err = "state_out"
    /\ \E f \in Files : FullyCopied(f) /\ Key(f) \notin PersistedKeys
    /\ \E f \in Files : dest[DestOf(f)] = NoFile

\* C7: a failure to persist the state in the source directory never makes
\* the run return an error
C7_BestEffortNeverAborts == err # "state_in"

WholeStateFile(file) == file.kind = "file" /\ file.part = "full"

\* the step removes d's state file or puts in place the whole serialization
\* of the state save_state was given for d
ReplacedWhole(d) ==
    \/ stf'[d] = Absent
    \/ /\ WholeStateFile(stf'[d])
       /\ d = sdir
       /\ Deserialize(stf'[d].text) = state

\* C8: state-file atomicity. At every moment each directory's state file is
\* absent or a whole serialization, and every step that changes it removes
\* it or puts in place the whole serialization of the state that save_state
\* was given for that directory.
C8_StateFileAtomic ==
    /\ [](\A d \in {"out", "in"} : stf[d] = Absent \/ WholeStateFile(stf[d]))
    /\ [][\A d \in {"out", "in"} : stf'[d] # stf[d] => ReplacedWhole(d)]_vars

\* C8 witness: a directory holds an earlier state file, whole, while the
\* temporary file beside it is partly written
C8_Witness ==
    /\ pc = "save_write"
    /\ tmp[sdir].kind = "file"
    /\ tmp[sdir].part = "partial"
    /\ WholeStateFile(stf[sdir])
    /\ Deserialize(stf[sdir].text) # state

-----------------------------------------------------------------------------
(* Properties of load_state, under SpecLoad *)

\* the file exists, can be read and is a whole JSON text
Parses(file) == file.kind = "file" /\ file.part = "full"

\* C9: load_state returns the destination directory's state when that file
\* exists and parses, else the source directory's state when that file
\* exists and parses, else none; no file makes it fail.
C9_LoadPrefersDestination ==
    pc = "load_return" =>
        IF Parses(stf["out"])
        THEN lresult = Some(Deserialize(stf["out"].text))
        ELSE IF Parses(stf["in"])
             THEN lresult = Some(Deserialize(stf["in"].text))
             ELSE lresult = None

\* C9 witness: the destination's file is cut short, the source's is whole
\* and differs, and load_state has returned the source's state
C9_Witness ==
    /\ pc = "load_return"
    /\ stf["out"].kind = "file"
    /\ stf["out"].part = "partial"
    /\ Parses(stf["in"])
    /\ stf["in"].text # stf["out"].text
    /\ lresult = Some(Deserialize(stf["in"].text))

-----------------------------------------------------------------------------
(* Properties of group_into_sessions, under SpecGroup *)

\* |a - b| <= gap_hours * 3600 seconds, in exact arithmetic
WithinGap(a, b, gap) ==
    Abs(DurationBetween(a, b)) * gap.den <= gap.num * SecondsPerHour * TicksPerSec

\* C10: the gap property. Adjacent files of one session are at most
\* gap_hours * 3600 seconds apart, and the last file of a session and the
\* first file of the next are more than that apart.
C10_GapProperty ==
    pc = "group_return" =>
        /\ \A s \in DOMAIN gsessions :
               \A i \in 1..(Len(gsessions[s].files) - 1) :
                   WithinGap(gsessions[s].files[i + 1].datetime,
                             gsessions[s].files[i].datetime, gap_hours)
        /\ \A s \in 1..(Len(gsessions) - 1) :
               ~WithinGap(gsessions[s + 1].files[1].datetime,
                          gsessions[s].files[Len(gsessions[s].files)].datetime, gap_hours)

-----------------------------------------------------------------------------
(* Properties of the session names, under SpecNaming *)

Returned == pc \in {"group_return", "name_return"}

\* the sessions of the result that start on the date of session i
SameDate(i) ==
    {j \in DOMAIN gsessions :
        FormatDate(gsessions[j].files[1].datetime) = FormatDate(gsessions[i].files[1].datetime)}

\* C11: naming uniqueness. The folder names of the sessions one call
\* returns are pairwise distinct, however many sessions start on one date.
C11_NamingUnique ==
    Returned =>
        \A i, j \in DOMAIN gsessions :
            i # j => gsessions[i].folder_name # gsessions[j].folder_name

\* the lowercase letters, in order
Lowercase == SubSeq(AsciiFromA, 1, 26)

\* the rule for session i: the bare date if and only if it is the only
\* session of its date; else, up to 26 sessions on the date, the date, "_"
\* and the letter of the session's rank among the sessions of its date
NamedByRule(i) ==
    LET date == FormatDate(gsessions[i].files[1].datetime)
        k == Cardinality({j \in SameDate(i) : j <= i})
    IN  /\ (gsessions[i].folder_name = date) <=> (SameDate(i) = {i})
        /\ (SameDate(i) # {i} /\ Cardinality(SameDate(i)) <= Len(Lowercase)) =>
               gsessions[i].folder_name = date \o "_" \o Lowercase[k]

\* the naming rule for dates with at most 26 sessions
NamingRuleUpTo26 == Returned => \A i \in DOMAIN gsessions : NamedByRule(i)

\* no two sessions of one date have the same suffix
NoSuffixReuse ==
    \A i \in DOMAIN gsessions : \A j \in SameDate(i) :
        i # j => gsessions[i].folder_name # gsessions[j].folder_name

\* C12: the naming rule. A session is named by the bare date exactly when
\* no other session starts on its date; else the k-th session of the date
\* is named date_<k-th letter> (dates with at most 26 sessions), and a
\* suffix is never used twice for one date.
C12_NamingRule ==
    Returned => (NoSuffixReuse /\ \A i \in DOMAIN gsessions : NamedByRule(i))

-----------------------------------------------------------------------------
(* Properties of group_into_sessions, under SpecGroup *)

\* a is not later than b
NotLater(a, b) == DurationBetween(a, b) <= 0

FirstTime(s) == gsessions[s].files[1].datetime

FirstTimesOrdered ==
    \A s \in 1..(Len(gsessions) - 1) : NotLater(FirstTime(s), FirstTime(s + 1))

InputSortedByTime ==
    \A i \in 1..(Len(gfiles) - 1) : NotLater(gfiles[i].datetime, gfiles[i + 1].datetime)

\* C13 as stated: for every input, sorted by timestamp or not, the
\* timestamps of the sessions' first files are non-decreasing in the order
\* of the sessions.
C13_SessionOrder == Returned => FirstTimesOrdered

\* C13, for inputs that are in timestamp order: the timestamps of the
\* sessions' first files are non-decreasing in the order of the sessions.
C13_SessionOrderSorted == (Returned /\ InputSortedByTime) => FirstTimesOrdered

C13_Witness ==
    /\ pc = "group_return"
    /\ InputSortedByTime
    /\ Len(gsessions) >= 2
    /\ FirstTime(1) # FirstTime(2)
    /\ Len(gsessions[1].files) >= 2

\* the files of the sessions, one session after the other
SessionFilesInOrder == Flatten([s \in DOMAIN gsessions |-> gsessions[s].files])

\* the loop of group_into_sessions computes the runs between session starts
LoopIsRuns ==
    gfiles # <<>> =>
        GroupLoop(gfiles, 2, <<>>, <<gfiles[1]>>, GapSeconds(gap_hours))
            = SessionRuns(gfiles, GapSeconds(gap_hours))

\* C18: the sessions partition the input. Their files, concatenated in
\* the order of the sessions, are the input sequence; no session is empty;
\* no file gives no session and one file gives one session.
C18_Partition ==
    Returned =>
        /\ SessionFilesInOrder = gfiles
        /\ \A s \in DOMAIN gsessions : gsessions[s].files # <<>>
        /\ (gfiles = <<>>) => (gsessions = <<>>)
        /\ (Len(gfiles) = 1) => (Len(gsessions) = 1)

C18_Witness ==
    /\ pc = "group_return"
    /\ Len(gfiles) = MaxLen
    /\ Len(gsessions) = 2
    /\ Len(gsessions[1].files) = 2

-----------------------------------------------------------------------------
(* Properties of the TransferState, under Spec *)

SameHeader(a, b) ==
    /\ a.transfer_id = b.transfer_id
    /\ a.total_files = b.total_files
    /\ a.total_bytes = b.total_bytes

\* what mark_completed(state, k) must be
MarksKey(k) ==
    LET marked == mark_completed(state, k)
    IN  /\ marked.completed_files = state.completed_files \cup {k}
        /\ SameHeader(marked, state)
        /\ (k \in state.completed_files) =>
               Cardinality(marked.completed_files) = Cardinality(state.completed_files)

\* a step of the process that does not end it
ProcessStep == pc \in Running /\ pc' \in Running

KeepsKeys == state.completed_files \subseteq state'.completed_files /\ SameHeader(state', state)

\* the step of transfer.rs:75
MarkStep == pc = "copy" /\ pc' = "save_begin"

AddsCurrentKey == state'.completed_files = state.completed_files \cup {Key(CurFile)}

\* C14: the TransferState only grows. mark_completed adds the key and
\* nothing else, marking a key already present changes nothing, and no step
\* of transfer_sessions removes a key or changes transfer_id, total_files
\* or total_bytes.
C14_StateOnlyGrows ==
    /\ [](pc \in Running => \A k \in AllKeys : MarksKey(k))
    /\ [][ProcessStep => KeepsKeys]_vars
    /\ [][MarkStep => AddsCurrentKey]_vars

\* a second key has just been marked in a state that was loaded with one
C14_Witness ==
    /\ pc = "save_begin"
    /\ sdir = FirstSaveDir
    /\ loaded # {}
    /\ Cardinality(state.completed_files) > Cardinality(loaded)
    /\ Key(CurFile) \in state.completed_files

\* save_state for directory sdir returns Ok(()) in this step
SaveReturnsOk == pc \in SavePcs /\ pc' \in Running /\ (pc' \notin SavePcs \/ sdir' # sdir)

\* ... and it does so after the rename (state.rs:84-85)
SaveWritten == pc = "save_rename" /\ SaveReturnsOk

\* load_state reading directory sdir gives the state just saved
RoundTrips ==
    LET back == load_state(stf'[sdir], stf'[sdir])
    IN  /\ back.some
        /\ back.val.completed_files = state.completed_files
        /\ back.val.total_files = state.total_files
        /\ back.val.total_bytes = state.total_bytes

-----------------------------------------------------------------------------
(* Properties of the cleanup, under Spec *)

Dirs == {"out", "in"}

\* this step deletes a state file
DeletesStateFile == \E d \in Dirs : stf[d] # Absent /\ stf'[d] = Absent

\* transfer_sessions has returned Ok(()), the run is not a dry run, and the
\* state in use has at least total_files completed keys
DeletionAllowed ==
    /\ pc \in {"returned", "clean_in"}
    /\ ~dry_run
    /\ Cardinality(state.completed_files) >= state.total_files

\* the other outcomes: the run ends in an error, the run is a dry run, or
\* transfer_sessions has returned and all_done is false
OtherOutcome ==
    \/ pc' = "failed"
    \/ pc \in Running /\ dry_run
    \/ pc = "returned" /\ Cardinality(state.completed_files) < state.total_files

StateFilesKept == stf' = stf

-----------------------------------------------------------------------------
(* Properties of a failing copy, under Spec *)

\* the completed keys of the state load_state finds on disk
PersistedCompleted ==
    LET found == load_state(stf["in"], stf["out"])
    IN  IF found.some THEN found.val.completed_files ELSE {}

\* copy_with_progress returns an error in this step (transfer.rs:74)
CopyFails == pc \in {"file", "copy"} /\ pc' = "failed" /\ err' = "copy"

\* the run ends at once; the key of the file is neither marked nor on
\* disk; the state on disk is the state completed before the failure
AbortsUnmarked ==
    /\ Key(CurFile) \notin state.completed_files
    /\ Key(CurFile) \notin PersistedKeys'
    /\ stf' = stf
    /\ dest' = dest
    /\ PersistedCompleted' = state.completed_files

NothingCopied == dest' = dest

\* C17: a failing byte copy aborts the run. transfer_sessions returns the
\* error at once, the key of the failing file is not completed and in no
\* state file, the state on disk holds exactly the keys completed before,
\* and no later file is copied.
C17_CopyFailureAborts ==
    /\ [][CopyFails => AbortsUnmarked]_vars
    /\ [][pc = "failed" => NothingCopied]_vars

\* a copy has failed half way, after an earlier file was completed
C17_Witness ==
    /\ pc = "failed"
    /\ err = "copy"
    /\ torn # {}
    /\ PersistedKeys # {}
    /\ \E f \in torn : PartlyCopied(f) /\ Key(f) \notin PersistedKeys

-----------------------------------------------------------------------------
(* Properties of files that share a basename, under Spec *)

\* two files of one session with one basename
SameBasename(f, g) ==
    /\ f # g
    /\ SessionOf(f) = SessionOf(g)
    /\ file_name(SourcePath(f)) = file_name(SourcePath(g))

\* the last file, in the order of the sessions, that is copied to path p
LastAt(p) == CHOOSE f \in Files : DestOf(f) = p /\ \A g \in Files : DestOf(g) = p => g <= f

\* the files copied to the path of the current file come before it
EarlierAreCompleted ==
    \A g \in Files :
        (SameBasename(g, CurFile) /\ g < CurFile) => Key(g) \in state.completed_files

\* C19: files of one session that share a basename are copied to one
\* destination path, in the order of the session; when the run returns
\* success that path holds the content of the later file only, and the
\* keys of both files are completed and persisted.
C19_BasenameCollision ==
    /\ [](\A f, g \in Files : SameBasename(f, g) => DestOf(f) = DestOf(g))
    /\ [][CopyCompletes => EarlierAreCompleted]_vars
    /\ []((pc = "returned" /\ ~dry_run) =>
            \A f \in Files :
                /\ dest[DestOf(f)] = Content(LastAt(DestOf(f)), Size(LastAt(DestOf(f))))
                /\ Key(f) \in state.completed_files
                /\ Key(f) \in PersistedCompleted)

\* one run has copied both files of one basename and has returned
C19_Witness ==
    /\ pc = "returned"
    /\ ~dry_run
    /\ \E f, g \in copiedRun :
           /\ SameBasename(f, g)
           /\ f < g
           /\ dest[DestOf(f)] = Content(g, Size(g))
           /\ {Key(f), Key(g)} \subseteq KeysIn("out")

-----------------------------------------------------------------------------
(* Properties of the two state files, under Spec *)

BothStateFilesExist == \A d \in Dirs : stf[d] # Absent

\* C20: whenever both state files exist, the completed keys in the input
\* directory's file are among those in the output directory's file.
C20_SourceNotAhead == BothStateFilesExist => (KeysIn("in") \subseteq KeysIn("out"))

\* the input directory's file is behind the output directory's
C20_Witness ==
    /\ BothStateFilesExist
    /\ KeysIn("in") # {}
    /\ KeysIn("in") # KeysIn("out")

-----------------------------------------------------------------------------
(* Properties of the cleanup after a resumed run, under SpecResume *)

\* cleanup_state is called or under way (main.rs:123-124)
CleanupReached == (pc = "returned" /\ CleanupDue) \/ pc = "clean_in"

\* C21: whenever cleanup_state is reached, the key of every file of every
\* session of the run is in completed_files, and every file has been copied
\* to completion, also when the loaded state's total_files is smaller than
\* the number of files of the run.
C21_CleanupAfterAllCopied ==
    CleanupReached =>
        \A f \in Files : Key(f) \in state.completed_files /\ f \in copiedEver

\* cleanup is reached in a run that loaded a state made for fewer files and
\* copied the files that were new
C21_Witness ==
    /\ CleanupReached
    /\ state.total_files < total_files
    /\ loaded # {}
    /\ copiedRun # {}


=============================================================================
